---- MODULE Spec2Model ----
(***************************************************************************)
(* Model of src/app.py: the asynchronous reel-rendering service.           *)
(*                                                                         *)
(* State: the in-memory job registry (job_status), its snapshot file, the  *)
(* upload/output folders, one background thread per accepted create        *)
(* request, the wall clock (time.time()) and the last HTTP response.       *)
(* Two history variables record what a client has seen: created[j], the    *)
(* time of the last create request answered with identifier j, and         *)
(* returned[j], the completed record the last status query for j returned. *)
(*                                                                         *)
(* Two more variables serve the finer specifications further down: call is *)
(* one call of a function followed from its arguments to its return, hnd   *)
(* is a request handler followed statement by statement.  Spec leaves both *)
(* at rest.                                                                *)
(*                                                                         *)
(* str(uuid.uuid4())[:8] is a random draw of 32 bits that create_reel      *)
(* stores without looking the key up: the identifier of a create request   *)
(* is any element of IDS.                                                  *)
(*                                                                         *)
(* Granularity: an HTTP handler is one action (it makes no blocking call); *)
(* a background pipeline is cut at its blocking external calls, so each    *)
(* pipeline action is "the external calls return, then the registry is     *)
(* updated and saved".  The clock may advance between any two actions.     *)
(*                                                                         *)
(* Lines 209-217 (the except branch of process_reel_async) have no action: *)
(* download_google_drive, get_duration, process_video, save_jobs and       *)
(* cleanup each catch every Exception themselves, and the remaining        *)
(* statements of the try block (dict stores, min, f-strings) do not raise. *)
(***************************************************************************)
EXTENDS Integers, Sequences, FiniteSets, TLC

(* ------------------------------ bounds -------------------------------- *)
\* number of distinct values str(uuid.uuid4())[:8] can take in the model
MaxIds == 2
\* number of create requests that get a background thread
MaxThreads == 2
\* seconds by which one clock step advances time.time()
TickStep == 3600
\* last clock value explored
MaxNow == 10800
\* longest duration, in seconds, ffprobe reports in the duration specification
MaxProbe == 50
\* a request carries a maxDuration from -MaxBelowZero to MaxRequested there
MaxBelowZero == 5
MaxRequested == 35

(* ------------------------- program constants -------------------------- *)
RETENTION == 7200
DEFAULT_MAX_DURATION == 60
DURATION_CAP == 30
DEFAULT_FINAL_DUR == 20

IDS == 1..MaxIds
Threads == 1..MaxThreads

\* values a JSON field videoId / musicId can take: absent, empty, a file id
IdFields == {"absent", "", "fileid"}
\* values of the maxDuration field: absent, a non-numeric string, a numeral
MaxDurationFields == {"absent", "abc", "60"}
Requests == [videoId : IdFields, musicId : IdFields, maxDuration : MaxDurationFields]
\* what ffprobe can report for a file, in whole seconds
ProbeResults == {0, 45}
\* download_google_drive: file written and path returned; None with nothing
\* written; None with a partial file left behind (exception mid-write)
DownloadOutcomes == {"ok", "fail", "partial"}

VARIABLES now, job_status, disk, files, thr, resp, created, returned, call, hnd

vars == <<now, job_status, disk, files, thr, resp, created, returned, call, hnd>>

(* ------------------------------ records ------------------------------- *)
JobStartedRecord(ts) ==
    [status |-> "processing", progress |-> 0,
     message |-> "Job started", timestamp |-> ts]

DownloadingRecord(ts) ==
    [status |-> "downloading", progress |-> 20,
     message |-> "Downloading files...", timestamp |-> ts]

\* mutant: the download-failure branch leaves the record as it was written
DownloadFailedNotMarked(ts) == DownloadingRecord(ts)

DownloadFailedRecord(ts) ==
    [status |-> "error", progress |-> 0,
     message |-> "Download failed", timestamp |-> ts]

ProcessingRecord(ts) ==
    [status |-> "processing", progress |-> 50,
     message |-> "Processing video...", timestamp |-> ts]

ProcessingFailedRecord(ts) ==
    [status |-> "error", progress |-> 0,
     message |-> "Processing failed", timestamp |-> ts]

PublicUrl(job_id) == <<"outputs", "reel", job_id>>

\* mutant: the final update omits the result fields
CompletedWithoutResult(job_id, final_dur, ts) ==
    [status |-> "completed", progress |-> 100,
     message |-> "Video processing completed successfully",
     timestamp |-> ts]

CompletedRecord(job_id, final_dur, ts) ==
    [status |-> "completed", progress |-> 100,
     videoUrl |-> PublicUrl(job_id), duration |-> final_dur,
     audioReplaced |-> TRUE,
     message |-> "Video processing completed successfully",
     timestamp |-> ts]

\* job_status[job_id] = record
Store(reg, job_id, record) ==
    [j \in (DOMAIN reg) \cup {job_id} |-> IF j = job_id THEN record ELSE reg[j]]

\* mutant: the thread is started without the initial record being stored
InsertSkipped(reg, job_id, ts) == reg

\* lines 100-106: the registry after create_reel's insert
InsertNew(reg, job_id, ts) == Store(reg, job_id, JobStartedRecord(ts))

VideoFile(job_id) == <<"uploads", "video", job_id>>
MusicFile(job_id) == <<"uploads", "music", job_id>>
OutputFile(job_id) == <<"outputs", "reel", job_id>>

\* a thread slot no create request has used yet (it has no locals)
IdleThread == [pc |-> "idle"]

\* no completed record remembered
NoBody == [status |-> "none"]
\* no HTTP response sent yet
NoResponse == [kind |-> "none", code |-> 0]

Min(a, b) == IF a <= b THEN a ELSE b

\* int(...) raises ValueError on a non-numeric string
IntRaises(field) == field = "abc"

\* int(data.get('maxDuration', 60)), where it does not raise
IntOfMaxDuration(field) ==
    CASE field = "absent" -> DEFAULT_MAX_DURATION
      [] field = "60" -> 60

\* not video_id or not music_id
MissingIds(req) ==
    req.videoId \in {"absent", ""} \/ req.musicId \in {"absent", ""}

\* mutant: only a negative result is replaced by the default
FinalDurationZeroPasses(video_dur, music_dur, max_duration) ==
    LET actual_max == Min(max_duration, DURATION_CAP)
        final_dur == Min(Min(video_dur, music_dur), actual_max)
    IN  IF final_dur < 0 THEN DEFAULT_FINAL_DUR ELSE final_dur

\* lines 166-170
FinalDuration(video_dur, music_dur, max_duration) ==
    LET actual_max == Min(max_duration, DURATION_CAP)
        final_dur == Min(Min(video_dur, music_dur), actual_max)
    IN  IF final_dur <= 0 THEN DEFAULT_FINAL_DUR ELSE final_dur

\* mutant: the sweep compares against a three-hour horizon
ExpiredWrongHorizon(current_time, status) ==
    /\ "timestamp" \in DOMAIN status
    /\ current_time - status.timestamp > RETENTION + 3600

\* the condition under which cleanup_old_jobs marks a record for deletion
Expired(current_time, status) ==
    /\ "timestamp" \in DOMAIN status
    /\ current_time - status.timestamp > RETENTION

\* the registry after cleanup_old_jobs ran at current_time
CleanupOldJobs(reg, current_time) ==
    LET jobs_to_delete == {j \in DOMAIN reg : Expired(current_time, reg[j])}
    IN  [j \in (DOMAIN reg) \ jobs_to_delete |-> reg[j]]

(* --------------------------- the snapshot file ------------------------ *)
\* json.dump writes a Python value as a JSON value: str as a string, int and
\* float as a number, True and False as true and false.  status, message and
\* videoUrl hold a str, audioReplaced a bool, the other fields a number.
JsonOf(field, value) ==
    IF field \in {"status", "message", "videoUrl"}
    THEN [t |-> "string", s |-> value]
    ELSE IF field = "audioReplaced"
    THEN [t |-> IF value THEN "true" ELSE "false"]
    ELSE [t |-> "number", n |-> value]

\* json.load reads a JSON value as a Python value
PyOf(json) ==
    CASE json.t = "string" -> json.s
      [] json.t = "number" -> json.n
      [] json.t = "true" -> TRUE
      [] json.t = "false" -> FALSE

\* mutant: the timestamp of a record is not written
JsonDumpWithoutTimestamp(reg) ==
    [j \in DOMAIN reg |->
        [f \in (DOMAIN reg[j]) \ {"timestamp"} |-> JsonOf(f, reg[j][f])]]

\* json.dump(job_status, f): an object of objects, keyed by job identifier
JsonDump(reg) ==
    [j \in DOMAIN reg |-> [f \in DOMAIN reg[j] |-> JsonOf(f, reg[j][f])]]

\* json.load(f) of such a document
JsonLoad(doc) ==
    [j \in DOMAIN doc |-> [f \in DOMAIN doc[j] |-> PyOf(doc[j][f])]]

\* JOB_STORAGE_FILE does not exist
NoSnapshot == [kind |-> "absent"]
\* the file right after open(JOB_STORAGE_FILE, 'w'): truncated to nothing
EmptyFile == [kind |-> "empty"]
\* the file holds the text of one document over the longer text of another
TornFile == [kind |-> "torn"]
\* the file holds the text of a JSON document
JsonFile(doc) == [kind |-> "json", doc |-> doc]

\* the snapshot file after save_jobs ran from open to close on its own
SaveJobs(reg) == JsonFile(JsonDump(reg))

\* job_status after load_jobs ran on a fresh process: a missing file leaves
\* it {}, a file json.load cannot parse makes the except branch set it to {}
LoadJobs(file) ==
    IF file.kind = "json" THEN JsonLoad(file.doc) ELSE << >>

\* cleanup([video_path, music_path])
Cleanup(fs, job_id) == fs \ {VideoFile(job_id), MusicFile(job_id)}

\* no function call is being followed step by step
NoCall == [fn |-> "none"]
\* no request handler is in the middle of a registry access
IdleHandler == [pc |-> "idle"]

\* the variables of the service other than call
serviceVars == <<now, job_status, disk, files, thr, resp, created, returned, hnd>>

\* the process has started at time boot_time with the snapshot file in
\* state file: load_jobs has run, no request has arrived
ServiceStarted(file, boot_time) ==
    /\ now = boot_time
    /\ job_status = LoadJobs(file)
    /\ disk = file
    /\ files = {}
    /\ thr = [t \in Threads |-> IdleThread]
    /\ resp = NoResponse
    /\ created = [j \in IDS |-> -1]
    /\ returned = [j \in IDS |-> NoBody]
    /\ hnd = IdleHandler

\* first start of the process: load_jobs finds no snapshot file
ServiceAtRest == ServiceStarted(NoSnapshot, 0)

Init == ServiceAtRest /\ call = NoCall

(* ------------------------------ handlers ------------------------------ *)
\* POST /create-reel with JSON body req; uuid is str(uuid.uuid4())[:8]
CreateReel(req, uuid) ==
    IF IntRaises(req.maxDuration)
    THEN \* line 91 raises inside the try: the except branch answers 500
         /\ resp' = [kind |-> "create", code |-> 500]
         /\ UNCHANGED <<now, job_status, disk, files, thr, created, returned, call, hnd>>
    ELSE IF MissingIds(req)
    THEN /\ resp' = [kind |-> "create", code |-> 400]
         /\ UNCHANGED <<now, job_status, disk, files, thr, created, returned, call, hnd>>
    ELSE /\ \E t \in Threads : thr[t].pc = "idle"
         /\ LET t == CHOOSE u \in Threads :
                        /\ thr[u].pc = "idle"
                        /\ \A w \in Threads : thr[w].pc = "idle" => u <= w
                job_id == uuid
            IN  /\ job_status' = InsertNew(job_status, job_id, now)
                /\ disk' = SaveJobs(job_status')
                /\ thr' = [thr EXCEPT ![t] =
                              [pc |-> "start", job_id |-> job_id,
                               max_duration |-> IntOfMaxDuration(req.maxDuration),
                               result |-> "running"]]
                /\ resp' = [kind |-> "create", code |-> 202, jobId |-> job_id]
                /\ created' = [created EXCEPT ![job_id] = now]
         /\ UNCHANGED <<now, files, returned, call, hnd>>

\* GET /job-status/<job_id>
GetJobStatus(job_id) ==
    LET swept == CleanupOldJobs(job_status, now)
    IN  /\ job_status' = swept
        /\ disk' = IF DOMAIN swept # DOMAIN job_status THEN SaveJobs(swept) ELSE disk
        /\ resp' = IF job_id \notin DOMAIN swept
                   THEN [kind |-> "status", code |-> 404, jobId |-> job_id]
                   ELSE [kind |-> "status", code |-> 200,
                         jobId |-> job_id, body |-> swept[job_id]]
        \* returned[j]: the completed record the last query for j was answered
        \* with, forgotten when the sweep removes j
        /\ returned' = [j \in IDS |->
                          IF j \notin DOMAIN swept THEN NoBody
                          ELSE IF j # job_id THEN returned[j]
                          ELSE IF swept[j].status = "completed" THEN swept[j]
                          ELSE NoBody]
        /\ UNCHANGED <<now, files, thr, created, call, hnd>>

(* ------------------------- background pipeline ------------------------ *)
\* lines 133-139
PipeStart(t) ==
    /\ thr[t].pc = "start"
    /\ job_status' = Store(job_status, thr[t].job_id, DownloadingRecord(now))
    /\ disk' = SaveJobs(job_status')
    /\ thr' = [thr EXCEPT ![t].pc = "download"]
    /\ UNCHANGED <<now, files, resp, created, returned, call, hnd>>

\* lines 141-161: both downloads return, then the registry is updated
PipeDownload(t) ==
    /\ thr[t].pc = "download"
    /\ \E vo \in DownloadOutcomes, mo \in DownloadOutcomes :
         LET job_id == thr[t].job_id
             written == {VideoFile(job_id) : x \in {vo} \ {"fail"}}
                        \cup {MusicFile(job_id) : x \in {mo} \ {"fail"}}
         IN  /\ files' = files \cup written
             /\ IF vo # "ok" \/ mo # "ok"
                THEN /\ job_status' = Store(job_status, job_id, DownloadFailedRecord(now))
                     /\ thr' = [thr EXCEPT ![t].pc = "done",
                                            ![t].result = "download_failed"]
                ELSE /\ job_status' = Store(job_status, job_id, ProcessingRecord(now))
                     /\ thr' = [thr EXCEPT ![t].pc = "render"]
             /\ disk' = SaveJobs(job_status')
    /\ UNCHANGED <<now, resp, created, returned, call, hnd>>

\* lines 163-207: both probes and the render return, then the registry is
\* updated and the source files are deleted
PipeRender(t) ==
    /\ thr[t].pc = "render"
    /\ \E video_dur \in ProbeResults, music_dur \in ProbeResults,
          success \in BOOLEAN, output_left \in BOOLEAN :
         LET job_id == thr[t].job_id
             final_dur == FinalDuration(video_dur, music_dur, thr[t].max_duration)
         IN  /\ success => output_left
             /\ IF ~success
                THEN job_status' = Store(job_status, job_id, ProcessingFailedRecord(now))
                ELSE job_status' = Store(job_status, job_id,
                                         CompletedRecord(job_id, final_dur, now))
             /\ files' = Cleanup(files, job_id)
                            \cup {OutputFile(job_id) : x \in {output_left} \ {FALSE}}
             /\ disk' = SaveJobs(job_status')
             /\ thr' = [thr EXCEPT ![t].pc = "done",
                                    ![t].result = IF success THEN "completed"
                                                  ELSE "render_failed"]
    /\ UNCHANGED <<now, resp, created, returned, call, hnd>>

Pipeline(t) == PipeStart(t) \/ PipeDownload(t) \/ PipeRender(t)

\* time.time() advances
Tick ==
    /\ now + TickStep <= MaxNow
    /\ now' = now + TickStep
    /\ UNCHANGED <<job_status, disk, files, thr, resp, created, returned, call, hnd>>

Next ==
    \/ Tick
    \/ \E req \in Requests, uuid \in IDS : CreateReel(req, uuid)
    \/ \E job_id \in IDS : GetJobStatus(job_id)
    \/ \E t \in Threads : PipeStart(t)
    \/ \E t \in Threads : PipeDownload(t)
    \/ \E t \in Threads : PipeRender(t)

Spec == Init /\ [][Next]_vars

\* the scheduler runs every started background thread
FairSpec == Spec /\ \A t \in Threads : WF_vars(Pipeline(t))

(* ------------------- the duration given to the render ------------------ *)
\* lines 163-176 of process_reel_async on their own: both probes have
\* returned, final_dur is computed and handed to process_video
Durations == 0..MaxProbe
RequestedDurations == (0 - MaxBelowZero)..MaxRequested

DurationInit ==
    /\ ServiceAtRest
    /\ \E video_dur \in Durations, music_dur \in Durations,
          max_duration \in RequestedDurations :
         call = [fn |-> "process_reel_async", pc |-> "probed",
                 video_dur |-> video_dur, music_dur |-> music_dur,
                 max_duration |-> max_duration]

PassDuration ==
    /\ call.fn = "process_reel_async" /\ call.pc = "probed"
    /\ call' = [fn |-> "process_reel_async", pc |-> "process_video",
                video_dur |-> call.video_dur, music_dur |-> call.music_dur,
                max_duration |-> call.max_duration,
                final_dur |-> FinalDuration(call.video_dur, call.music_dur,
                                            call.max_duration)]
    /\ UNCHANGED serviceVars

DurationNext == PassDuration

DurationSpec == DurationInit /\ [][DurationNext]_vars

(* --------------------------- process_video ---------------------------- *)
Positions == {"top", "center", "bottom"}
\* an entry of the overlays object: key absent, text empty, text present
OverlayEntries == {"absent", "", "text"}
OverlaySpecs == [Positions -> OverlayEntries]
\* how subprocess.run(cmd, timeout=300) ends: the tool exits with 0, exits
\* with another code, is killed at the timeout (TimeoutExpired), or cannot be
\* started (FileNotFoundError, OSError)
FfmpegOutcomes == {"exit_zero", "exit_nonzero", "timeout", "not_started"}

\* overlays.get(position, {}).get('text', '')
OverlayText(overlays, position) ==
    IF overlays[position] = "absent" THEN "" ELSE overlays[position]

\* Python's None, as a path
None == << >>
\* the path tempfile.mkstemp returns for the text of a position
TmpFile(position) == <<"uploads", "tmp", position>>

\* create_text_file: the path it returns
CreateTextFile(position, text) == IF text = "" THEN None ELSE TmpFile(position)

ScaleCrop == [kind |-> "scale_crop"]
DrawText(position, textfile, fontsize) ==
    [kind |-> "drawtext", position |-> position,
     textfile |-> textfile, fontsize |-> fontsize]

\* mutant: the bottom text is drawn before the center text
VideoFilterBottomFirst(top_file, center_file, bottom_file) ==
    <<ScaleCrop>>
    \o (IF top_file # None THEN <<DrawText("top", top_file, 24)>> ELSE << >>)
    \o (IF bottom_file # None THEN <<DrawText("bottom", bottom_file, 20)>> ELSE << >>)
    \o (IF center_file # None THEN <<DrawText("center", center_file, 40)>> ELSE << >>)

\* lines 309-318: video_filter, one comma-separated stage per element
VideoFilter(top_file, center_file, bottom_file) ==
    <<ScaleCrop>>
    \o (IF top_file # None THEN <<DrawText("top", top_file, 24)>> ELSE << >>)
    \o (IF center_file # None THEN <<DrawText("center", center_file, 40)>> ELSE << >>)
    \o (IF bottom_file # None THEN <<DrawText("bottom", bottom_file, 20)>> ELSE << >>)

\* process_video is entered with an overlays object
VideoInit ==
    /\ ServiceAtRest
    /\ \E overlays \in OverlaySpecs :
         call = [fn |-> "process_video", pc |-> "entered", overlays |-> overlays]

\* lines 301-325: the text files are written and the command is built
BuildCommand ==
    /\ call.fn = "process_video" /\ call.pc = "entered"
    /\ LET top_file == CreateTextFile("top", OverlayText(call.overlays, "top"))
           center_file == CreateTextFile("center", OverlayText(call.overlays, "center"))
           bottom_file == CreateTextFile("bottom", OverlayText(call.overlays, "bottom"))
           text_files == {top_file, center_file, bottom_file} \ {None}
       IN  /\ files' = files \cup text_files
           /\ call' = [fn |-> "process_video", pc |-> "built",
                       overlays |-> call.overlays, text_files |-> text_files,
                       video_filter |-> VideoFilter(top_file, center_file, bottom_file)]
    /\ UNCHANGED <<now, job_status, disk, thr, resp, created, returned, hnd>>

\* lines 327-343: subprocess.run returns or raises; the loop that removes
\* the text files stands after it inside the try block
RunFfmpeg ==
    /\ call.fn = "process_video" /\ call.pc = "built"
    /\ \E outcome \in FfmpegOutcomes :
         /\ files' = IF outcome \in {"exit_zero", "exit_nonzero"}
                     THEN files \ call.text_files
                     ELSE files
         /\ call' = [fn |-> "process_video", pc |-> "returned",
                     overlays |-> call.overlays, text_files |-> call.text_files,
                     video_filter |-> call.video_filter, outcome |-> outcome,
                     result |-> (outcome = "exit_zero")]
    /\ UNCHANGED <<now, job_status, disk, thr, resp, created, returned, hnd>>

VideoNext == BuildCommand \/ RunFfmpeg

VideoSpec == VideoInit /\ [][VideoNext]_vars

(* ------------------- the service after a restart ----------------------- *)
\* snapshots a killed process leaves behind: one job, in the middle of its
\* downloads or of its render
RestoredSnapshots ==
    {SaveJobs([j \in {1} |-> record]) :
        record \in {DownloadingRecord(0), ProcessingRecord(0)}}

\* the process is restarted right after its predecessor was killed: the
\* background threads of the predecessor are gone, load_jobs starts none
BootInit ==
    /\ \E file \in RestoredSnapshots : ServiceStarted(file, 0)
    /\ call = NoCall

BootSpec == BootInit /\ [][Next]_vars

(* ------------------------ save, restart, load -------------------------- *)
\* the records a job identifier can hold
RecordsOf(job_id) ==
    UNION {{JobStartedRecord(ts), DownloadingRecord(ts), DownloadFailedRecord(ts),
            ProcessingRecord(ts), ProcessingFailedRecord(ts),
            CompletedRecord(job_id, DEFAULT_FINAL_DUR, ts),
            CompletedRecord(job_id, DURATION_CAP, ts)} : ts \in {0, TickStep}}

\* the registries over the identifiers of IDS
Registries ==
    UNION {{reg \in [S -> UNION {RecordsOf(j) : j \in S}] :
               \A j \in S : reg[j] \in RecordsOf(j)} : S \in SUBSET IDS}

\* a process holds a registry; the snapshot file is missing or unreadable
\* (an earlier save_jobs failed, or the file was truncated and not written)
RoundTripInit ==
    /\ now = 0
    /\ job_status \in Registries
    /\ disk \in {NoSnapshot, EmptyFile, TornFile}
    /\ files = {}
    /\ thr = [t \in Threads |-> IdleThread]
    /\ resp = NoResponse
    /\ created = [j \in IDS |-> -1]
    /\ returned = [j \in IDS |-> NoBody]
    /\ hnd = IdleHandler
    /\ call = [fn |-> "save_jobs", pc |-> "called"]

\* save_jobs runs from open to close
SaveJobsCompletes ==
    /\ call.fn = "save_jobs" /\ call.pc = "called"
    /\ disk' = SaveJobs(job_status)
    /\ call' = [fn |-> "save_jobs", pc |-> "completed", serialized |-> job_status]
    /\ UNCHANGED <<now, job_status, files, thr, resp, created, returned, hnd>>

\* the process is restarted: a new interpreter sets job_status = {} (line 29)
\* and calls load_jobs (line 53)
Restart ==
    /\ call.fn = "save_jobs"
    /\ job_status' = LoadJobs(disk)
    /\ call' = IF call.pc = "completed"
               THEN [fn |-> "load_jobs", pc |-> "returned", saved |-> TRUE,
                     serialized |-> call.serialized]
               ELSE [fn |-> "load_jobs", pc |-> "returned", saved |-> FALSE]
    /\ UNCHANGED <<now, disk, files, thr, resp, created, returned, hnd>>

RoundTripNext == SaveJobsCompletes \/ Restart

RoundTripSpec == RoundTripInit /\ [][RoundTripNext]_vars

(* ------------------- the registry, statement by statement -------------- *)
(* The same service with its handlers and pipeline blocks cut where the    *)
(* interpreter can switch threads.  A store job_status[job_id] = {...} is  *)
(* one step.  save_jobs is three: open(JOB_STORAGE_FILE, 'w') truncates    *)
(* the file, json.dump fills the buffer of the file object from the        *)
(* registry as it is then, and leaving the with block writes the buffer    *)
(* at offset 0.  cleanup_old_jobs is two: job_status.items() creates the   *)
(* iterator, which remembers the size of the dict, and the loops run.      *)
(* No statement of app.py takes a lock.  hnd[h] is the thread of the       *)
(* request handler h; thr[t].save and hnd[h].save say where a save_jobs    *)
(* call stands ("no": none under way).                                     *)
(***************************************************************************)
\* a second writer closes over what another writer wrote since the file was
\* truncated: the file ends as this buffer, or torn when the other text was
\* longer (the lengths depend on digits the model does not follow)
CloseOutcomes(file, buf) ==
    IF file.kind = "empty" \/ file = JsonFile(buf)
    THEN {JsonFile(buf)}
    ELSE {JsonFile(buf), TornFile}

ThreadSaveOpen(t) ==
    /\ thr[t].pc # "idle" /\ thr[t].save = "to_open"
    /\ disk' = EmptyFile
    /\ thr' = [thr EXCEPT ![t].save = "opened"]
    /\ UNCHANGED <<now, job_status, files, resp, created, returned, call, hnd>>

ThreadSaveDump(t) ==
    /\ thr[t].pc # "idle" /\ thr[t].save = "opened"
    /\ thr' = [thr EXCEPT ![t].save = "dumped", ![t].buf = JsonDump(job_status)]
    /\ UNCHANGED <<now, job_status, disk, files, resp, created, returned, call, hnd>>

ThreadSaveClose(t) ==
    /\ thr[t].pc # "idle" /\ thr[t].save = "dumped"
    /\ disk' \in CloseOutcomes(disk, thr[t].buf)
    /\ thr' = [thr EXCEPT ![t].save = "no", ![t].buf = << >>]
    /\ UNCHANGED <<now, job_status, files, resp, created, returned, call, hnd>>

HandlerSaveOpen(h) ==
    /\ hnd[h].pc # "idle" /\ hnd[h].save = "to_open"
    /\ disk' = EmptyFile
    /\ hnd' = [hnd EXCEPT ![h].save = "opened"]
    /\ UNCHANGED <<now, job_status, files, thr, resp, created, returned, call>>

HandlerSaveDump(h) ==
    /\ hnd[h].pc # "idle" /\ hnd[h].save = "opened"
    /\ hnd' = [hnd EXCEPT ![h].save = "dumped", ![h].buf = JsonDump(job_status)]
    /\ UNCHANGED <<now, job_status, disk, files, thr, resp, created, returned, call>>

HandlerSaveClose(h) ==
    /\ hnd[h].pc # "idle" /\ hnd[h].save = "dumped"
    /\ disk' \in CloseOutcomes(disk, hnd[h].buf)
    /\ hnd' = [hnd EXCEPT ![h].save = "no", ![h].buf = << >>]
    /\ UNCHANGED <<now, job_status, files, thr, resp, created, returned, call>>

\* the requests create_reel does not reject: a rejected one returns at line
\* 94 or 127 without touching the registry
AcceptedRequests ==
    {req \in Requests : ~IntRaises(req.maxDuration) /\ ~MissingIds(req)}

\* create_reel, lines 84-106: an accepted request, the record is stored
StepCreateInsert(req, uuid) ==
    /\ hnd.create.pc = "idle"
    /\ \E t \in Threads : thr[t].pc = "idle"
    /\ job_status' = InsertNew(job_status, uuid, now)
    /\ hnd' = [hnd EXCEPT !.create =
                  [pc |-> "create", job_id |-> uuid,
                   max_duration |-> IntOfMaxDuration(req.maxDuration),
                   save |-> "to_open", buf |-> << >>]]
    /\ UNCHANGED <<now, disk, files, thr, resp, created, returned, call>>

\* create_reel, lines 109-123: the thread is started and 202 is answered
StepCreateStart ==
    /\ hnd.create.pc = "create" /\ hnd.create.save = "no"
    /\ LET t == CHOOSE u \in Threads :
                   /\ thr[u].pc = "idle"
                   /\ \A w \in Threads : thr[w].pc = "idle" => u <= w
       IN  /\ thr' = [thr EXCEPT ![t] =
                         [pc |-> "start", job_id |-> hnd.create.job_id,
                          max_duration |-> hnd.create.max_duration,
                          result |-> "running", save |-> "no", buf |-> << >>]]
           /\ resp' = [kind |-> "create", code |-> 202, jobId |-> hnd.create.job_id]
    /\ hnd' = [hnd EXCEPT !.create = IdleHandler]
    /\ UNCHANGED <<now, job_status, disk, files, created, returned, call>>

\* cleanup_old_jobs, lines 222-225: the iterator over the items is created
StepSweepBegin(job_id) ==
    /\ hnd.status.pc = "idle"
    /\ hnd' = [hnd EXCEPT !.status =
                  [pc |-> "sweep", job_id |-> job_id, current_time |-> now,
                   used |-> Cardinality(DOMAIN job_status),
                   save |-> "no", buf |-> << >>]]
    /\ UNCHANGED <<now, job_status, disk, files, thr, resp, created, returned, call>>

\* cleanup_old_jobs, lines 225-232: the loops run.  The iterator raises
\* RuntimeError when the dict no longer has the size it remembers; nothing
\* in get_job_status catches it and the request is answered with 500
StepSweepScan ==
    /\ hnd.status.pc = "sweep"
    /\ IF Cardinality(DOMAIN job_status) # hnd.status.used
       THEN /\ resp' = [kind |-> "status", code |-> 500, jobId |-> hnd.status.job_id]
            /\ hnd' = [hnd EXCEPT !.status = IdleHandler]
            /\ UNCHANGED job_status
       ELSE LET swept == CleanupOldJobs(job_status, hnd.status.current_time)
            IN  /\ job_status' = swept
                /\ hnd' = [hnd EXCEPT !.status =
                              [pc |-> "lookup", job_id |-> hnd.status.job_id,
                               save |-> IF DOMAIN swept # DOMAIN job_status
                                        THEN "to_open" ELSE "no",
                               buf |-> << >>]]
                /\ UNCHANGED resp
    /\ UNCHANGED <<now, disk, files, thr, created, returned, call>>

\* get_job_status, lines 243-249
StepLookup ==
    /\ hnd.status.pc = "lookup" /\ hnd.status.save = "no"
    /\ resp' = IF hnd.status.job_id \notin DOMAIN job_status
               THEN [kind |-> "status", code |-> 404, jobId |-> hnd.status.job_id]
               ELSE [kind |-> "status", code |-> 200, jobId |-> hnd.status.job_id,
                     body |-> job_status[hnd.status.job_id]]
    /\ hnd' = [hnd EXCEPT !.status = IdleHandler]
    /\ UNCHANGED <<now, job_status, disk, files, thr, created, returned, call>>

\* lines 133-138
StepPipeStart(t) ==
    /\ thr[t].pc = "start" /\ thr[t].save = "no"
    /\ job_status' = Store(job_status, thr[t].job_id, DownloadingRecord(now))
    /\ thr' = [thr EXCEPT ![t].pc = "download", ![t].save = "to_open"]
    /\ UNCHANGED <<now, disk, files, resp, created, returned, call, hnd>>

\* lines 141-160
StepPipeDownload(t) ==
    /\ thr[t].pc = "download" /\ thr[t].save = "no"
    /\ \E vo \in DownloadOutcomes, mo \in DownloadOutcomes :
         LET job_id == thr[t].job_id
             written == {VideoFile(job_id) : x \in {vo} \ {"fail"}}
                        \cup {MusicFile(job_id) : x \in {mo} \ {"fail"}}
         IN  /\ files' = files \cup written
             /\ IF vo # "ok" \/ mo # "ok"
                THEN /\ job_status' = Store(job_status, job_id, DownloadFailedRecord(now))
                     /\ thr' = [thr EXCEPT ![t].pc = "done",
                                            ![t].result = "download_failed",
                                            ![t].save = "to_open"]
                ELSE /\ job_status' = Store(job_status, job_id, ProcessingRecord(now))
                     /\ thr' = [thr EXCEPT ![t].pc = "render",
                                            ![t].save = "to_open"]
    /\ UNCHANGED <<now, disk, resp, created, returned, call, hnd>>

\* lines 163-184 and 189-201
StepPipeRender(t) ==
    /\ thr[t].pc = "render" /\ thr[t].save = "no"
    /\ \E video_dur \in ProbeResults, music_dur \in ProbeResults,
          success \in BOOLEAN, output_left \in BOOLEAN :
         LET job_id == thr[t].job_id
             final_dur == FinalDuration(video_dur, music_dur, thr[t].max_duration)
         IN  /\ success => output_left
             /\ IF ~success
                THEN job_status' = Store(job_status, job_id, ProcessingFailedRecord(now))
                ELSE job_status' = Store(job_status, job_id,
                                         CompletedRecord(job_id, final_dur, now))
             /\ files' = files \cup {OutputFile(job_id) : x \in {output_left} \ {FALSE}}
             /\ thr' = [thr EXCEPT ![t].pc = "cleanup",
                                    ![t].result = IF success THEN "completed"
                                                  ELSE "render_failed",
                                    ![t].save = "to_open"]
    /\ UNCHANGED <<now, disk, resp, created, returned, call, hnd>>

\* lines 186 and 205: cleanup([video_path, music_path]) after save_jobs
StepPipeCleanup(t) ==
    /\ thr[t].pc = "cleanup" /\ thr[t].save = "no"
    /\ files' = Cleanup(files, thr[t].job_id)
    /\ thr' = [thr EXCEPT ![t].pc = "done"]
    /\ UNCHANGED <<now, job_status, disk, resp, created, returned, call, hnd>>

\* the process was restarted MaxNow seconds after its predecessor had
\* written a snapshot that holds one job in the middle of its downloads
OldSnapshot == SaveJobs([j \in {1} |-> DownloadingRecord(0)])

\* the server gives every request a thread of its own: one create request
\* and one status request are followed at a time
Handlers == {"create", "status"}

StepInit ==
    /\ now = MaxNow
    /\ job_status = LoadJobs(OldSnapshot)
    /\ disk = OldSnapshot
    /\ files = {}
    /\ thr = [t \in Threads |-> IdleThread]
    /\ resp = NoResponse
    /\ created = [j \in IDS |-> -1]
    /\ returned = [j \in IDS |-> NoBody]
    /\ hnd = [h \in Handlers |-> IdleHandler]
    /\ call = NoCall

\* the steps of one burst of requests: the clock is not followed
StepNext ==
    \/ \E req \in AcceptedRequests, uuid \in IDS : StepCreateInsert(req, uuid)
    \/ StepCreateStart
    \/ \E job_id \in IDS : StepSweepBegin(job_id)
    \/ StepSweepScan
    \/ StepLookup
    \/ \E h \in Handlers : HandlerSaveOpen(h)
    \/ \E h \in Handlers : HandlerSaveDump(h)
    \/ \E h \in Handlers : HandlerSaveClose(h)
    \/ \E t \in Threads : StepPipeStart(t)
    \/ \E t \in Threads : StepPipeDownload(t)
    \/ \E t \in Threads : StepPipeRender(t)
    \/ \E t \in Threads : StepPipeCleanup(t)
    \/ \E t \in Threads : ThreadSaveOpen(t)
    \/ \E t \in Threads : ThreadSaveDump(t)
    \/ \E t \in Threads : ThreadSaveClose(t)

StepSpec == StepInit /\ [][StepNext]_vars

(* ------------------------------- claims ------------------------------- *)
Terminal == {"completed", "error"}
Started(t) == thr[t].pc # "idle"
HasResult(r) == {"videoUrl", "duration", "audioReplaced"} \cap DOMAIN r # {}
HasAllResult(r) == {"videoUrl", "duration", "audioReplaced"} \subseteq DOMAIN r
\* thread t is started by this step (a create request answered with 202)
Starts(t) == thr[t].pc = "idle" /\ thr'[t].pc = "start"

\* after this step exactly one started thread works under identifier j: the
\* job stored under j shares its identifier with no other job
SoleUser(j) ==
    Cardinality({t \in Threads : thr'[t].pc # "idle" /\ thr'[t].job_id = j}) = 1

\* position of a status in processing -> downloading -> rendering -> terminal
StatusRank(st) ==
    CASE st = "processing" -> 0
      [] st = "downloading" -> 1
      [] st = "rendering" -> 2
      [] st \in Terminal -> 3

\* C1: every change of a record's status made by create_reel or
\* process_reel_async is a forward step in the sequence
\* processing -> downloading -> rendering -> {completed | error}
\* (stated for the jobs that share their identifier with no other job).
C1_StatusOnlyForward ==
    [][\A j \in (DOMAIN job_status) \cap (DOMAIN job_status') :
          (SoleUser(j) /\ job_status'[j].status # job_status[j].status) =>
             StatusRank(job_status'[j].status) > StatusRank(job_status[j].status)]_vars

\* C2: once a record has status completed or error, no later operation
\* changes any of its fields; it can only be removed (by the sweep).
C2_TerminalIsFinal ==
    [][\A j \in DOMAIN job_status :
          job_status[j].status \in Terminal =>
             (j \in DOMAIN job_status' => job_status'[j] = job_status[j])]_vars

\* C3: progress is an integer in 0..100 and never decreases between two
\* successive states of a record, on every path of the pipeline
\* (stated for the jobs that share their identifier with no other job).
C3_ProgressMonotonic ==
    [][/\ \A j \in DOMAIN job_status' : job_status'[j].progress \in 0..100
       /\ \A j \in (DOMAIN job_status) \cap (DOMAIN job_status') :
             SoleUser(j) => job_status'[j].progress >= job_status[j].progress]_vars

\* a thread's position only moves forward, one pipeline run per thread
PcRank(pc) ==
    CASE pc = "idle" -> 0 [] pc = "start" -> 1 [] pc = "download" -> 2
      [] pc = "render" -> 3 [] pc = "done" -> 4

\* C4: every create request answered with 202 leads to a terminal state
\* (under fair scheduling of the background thread and returning external
\* calls, the job's record eventually has status completed or error), and
\* the pipeline is never retried or cancelled: a thread's position only moves
\* forward, its job identifier never changes, and "done" is final.
C4_ReachesTerminal ==
    /\ \A t \in Threads :
          (thr[t].pc = "start") ~>
             (/\ Started(t)
              /\ thr[t].job_id \in DOMAIN job_status
              /\ job_status[thr[t].job_id].status \in Terminal)
    /\ [][\A t \in Threads :
             thr'[t] # thr[t] =>
                /\ PcRank(thr'[t].pc) > PcRank(thr[t].pc)
                /\ Started(t) => thr'[t].job_id = thr[t].job_id]_vars

\* witness of C4: a pipeline has finished and its record is terminal
C4_Witness ==
    \E t \in Threads :
       /\ thr[t].pc = "done"
       /\ thr[t].job_id \in DOMAIN job_status
       /\ job_status[thr[t].job_id].status \in Terminal

C6_MissingIdsGive400 ==
    [][\A req \in Requests, uuid \in IDS :
          (MissingIds(req) /\ CreateReel(req, uuid)) =>
             /\ resp'.code = 400
             /\ UNCHANGED <<job_status, disk, files, thr>>]_vars

\* C7: in every reachable state a record carries the result fields
\* (videoUrl, duration, audioReplaced) if and only if its status is completed;
\* every record a job's thread writes carries them only when that job
\* completed, and the record written when the render step failed is an error
\* record, so a job whose render failed never writes a reference to the
\* output file.
C7_ResultIffCompleted ==
    /\ [](\A j \in DOMAIN job_status :
             /\ HasResult(job_status[j]) <=> job_status[j].status = "completed"
             /\ HasResult(job_status[j]) => HasAllResult(job_status[j]))
    /\ [][\A t \in Threads :
             thr'[t] # thr[t] =>
                LET id == thr'[t].job_id
                IN  /\ id \in DOMAIN job_status'
                    /\ HasResult(job_status'[id]) <=> thr'[t].result = "completed"
                    /\ thr'[t].result = "render_failed" =>
                          job_status'[id].status = "error"]_vars

\* witness of C7: a job whose render failed has an error record, while
\* another record is completed and carries the result fields
C7_Witness ==
    /\ \E t \in Threads :
          /\ Started(t) /\ thr[t].result = "render_failed"
          /\ thr[t].job_id \in DOMAIN job_status
          /\ job_status[thr[t].job_id].status = "error"
    /\ \E j \in DOMAIN job_status : job_status[j].status = "completed"

\* C8: a create request answered with 202 returns an identifier that differs
\* from the identifier of every record in the registry at that moment.
C8_FreshIdentifier ==
    [][\A t \in Threads :
          Starts(t) => thr'[t].job_id \notin DOMAIN job_status]_vars

\* C9: create_reel inserts the record (status processing, progress 0) for the
\* new identifier before the job's pipeline takes any step and answers 202
\* with that identifier without waiting for the pipeline: in the step that
\* starts the thread the record is in the registry and in the snapshot, the
\* thread is still at its first statement, and the response names the
\* identifier; no pipeline step is taken by a thread that was not started.
C9_InsertBeforePipeline ==
    [][\A t \in Threads :
          /\ Starts(t) =>
                LET id == thr'[t].job_id
                IN  /\ resp' = [kind |-> "create", code |-> 202, jobId |-> id]
                    /\ id \in DOMAIN job_status'
                    /\ job_status'[id].status = "processing"
                    /\ job_status'[id].progress = 0
                    /\ disk' = SaveJobs(job_status')
                    /\ thr'[t].result = "running"
          /\ (thr'[t].pc \in {"download", "render", "done"} /\ thr'[t] # thr[t])
                => Started(t)]_vars

\* witness of C9: the 202 response is out while the job is non-terminal and
\* its pipeline has not taken a step
C9_Witness ==
    /\ resp.kind = "create" /\ resp.code = 202
    /\ resp.jobId \in DOMAIN job_status
    /\ job_status[resp.jobId].status \notin Terminal
    /\ \E t \in Threads : thr[t].pc = "start" /\ thr[t].job_id = resp.jobId

\* C10: for a completed job, two status queries for its identifier made
\* before the sweep removes the record return the identical record.
C10_CompletedQueriesAgree ==
    [][\A j \in IDS :
          (returned[j] # NoBody /\ GetJobStatus(j) /\ resp'.code = 200) =>
             resp'.body = returned[j]]_vars

\* C11: for whole-second video and music durations and every requested
\* maxDuration of the range (zero and negative values included), the duration
\* handed to process_video is m = min(video, music, maxDuration, 30) when
\* m > 0 and 20 otherwise; it is always above 0 and never above 30.
C11_DurationPassed ==
    (call.fn = "process_reel_async" /\ call.pc = "process_video") =>
       LET args == {call.video_dur, call.music_dur, call.max_duration, 30}
           m == CHOOSE x \in args : \A y \in args : x <= y
       IN  /\ call.final_dur = IF m > 0 THEN m ELSE 20
           /\ call.final_dur > 0
           /\ call.final_dur <= 30

\* witness of C11: video 45 s, music 50 s, maxDuration 30 give 30 s
C11_Witness ==
    /\ call.fn = "process_reel_async" /\ call.pc = "process_video"
    /\ call.video_dur = 45 /\ call.music_dur = 50 /\ call.max_duration = 30
    /\ call.final_dur = 30

\* the order in which the positions are drawn
PositionRank(position) ==
    CASE position = "top" -> 1 [] position = "center" -> 2 [] position = "bottom" -> 3

\* C12: the filter chain process_video builds is the scale/crop stage
\* followed by exactly one drawtext stage for each position whose text is
\* non-empty, in the order top, center, bottom; with every text empty or
\* absent it is the scale/crop stage alone.
C12_FilterChain ==
    (call.fn = "process_video" /\ call.pc \in {"built", "returned"}) =>
       LET chain == call.video_filter
           drawn == {p \in Positions : call.overlays[p] = "text"}
       IN  /\ chain[1] = [kind |-> "scale_crop"]
           /\ Len(chain) = 1 + Cardinality(drawn)
           /\ \A i \in 2..Len(chain) :
                 /\ chain[i].kind = "drawtext"
                 /\ chain[i].position \in drawn
           /\ \A p \in drawn :
                 Cardinality({i \in 2..Len(chain) : chain[i].position = p}) = 1
           /\ \A i, k \in 2..Len(chain) :
                 i < k => PositionRank(chain[i].position) < PositionRank(chain[k].position)
           /\ drawn = {} => chain = <<[kind |-> "scale_crop"]>>

\* witness of C12: the command is built for texts at center and bottom only
C12_Witness ==
    /\ call.fn = "process_video" /\ call.pc = "built"
    /\ call.overlays["top"] \in {"absent", ""}
    /\ call.overlays["center"] = "text" /\ call.overlays["bottom"] = "text"
    /\ Len(call.video_filter) = 3
    /\ call.video_filter[2].position = "center"
    /\ call.video_filter[3].position = "bottom"

\* no other started thread works under the identifier of thread t
OnlyUser(t) ==
    \A u \in Threads \ {t} : Started(u) => thr[u].job_id # thr[t].job_id

\* C13: for every job that ended in error, whichever stage failed, neither
\* source file (video_<id>.mp4, music_<id>.mp3) remains in the upload folder
\* once its pipeline has finished (stated for the jobs that share their
\* identifier with no other job).
C13_NoSourceFilesAfterError ==
    \A t \in Threads :
       (/\ thr[t].pc = "done"
        /\ thr[t].result \in {"download_failed", "render_failed"}
        /\ OnlyUser(t)) =>
          /\ VideoFile(thr[t].job_id) \notin files
          /\ MusicFile(thr[t].job_id) \notin files

\* C14: when process_video has returned, none of the overlay-text files it
\* created exists any more, whichever way the tool ended: exit code zero,
\* non-zero exit code, timeout, or failure to start.
C14_TextFilesDeleted ==
    (call.fn = "process_video" /\ call.pc = "returned") =>
       call.text_files \cap files = {}

\* the threads that are inside the serialization of save_jobs or inside the
\* scan of cleanup_old_jobs (0 stands for the thread of the request handler)
AccessingThreads ==
    {t \in Threads : thr[t].pc # "idle" /\ thr[t].save \in {"opened", "dumped"}}
AccessingHandlers ==
    {h \in Handlers :
        \/ hnd[h].pc = "sweep"
        \/ hnd[h].pc # "idle" /\ hnd[h].save \in {"opened", "dumped"}}

\* C15: accesses to the registry exclude each other: at no time are two
\* threads inside a registry access (the serialization of save_jobs, the scan
\* of the sweep), and the mapping never has another size than the one the
\* scan of the sweep started with while that scan is under way.
C15_MutualExclusion ==
    /\ Cardinality(AccessingThreads) + Cardinality(AccessingHandlers) <= 1
    /\ hnd.status.pc = "sweep" =>
          Cardinality(DOMAIN job_status) = hnd.status.used

\* no create, update, sweep or save_jobs call is under way
Quiescent ==
    /\ \A h \in Handlers : hnd[h].pc = "idle"
    /\ \A t \in Threads : thr[t].pc # "idle" => thr[t].save = "no"

\* C16: whenever no create, update, sweep or save_jobs call is under way,
\* the snapshot file holds exactly the in-memory mapping (file writes do not
\* fail), whatever the interleaving of pipelines and handlers was.
C16_SnapshotMirrorsRegistry ==
    Quiescent => disk = SaveJobs(job_status)

Orphan(j) ==
    /\ j \in DOMAIN job_status
    /\ job_status[j].status \notin Terminal
    /\ \A t \in Threads : Started(t) => thr[t].job_id # j

\* C18: a job that was not terminal in the snapshot when the process
\* restarted is never resumed: no pipeline runs for it, its record stays as
\* restored (so it never becomes completed or error), and it leaves the
\* registry only through the sweep.
C18_OrphanNeverResumed ==
    [][\A j \in IDS :
          Orphan(j) =>
             /\ \A t \in Threads : thr'[t].pc # "idle" => thr'[t].job_id # j
             /\ j \in DOMAIN job_status' => job_status'[j] = job_status[j]
             /\ j \notin DOMAIN job_status' => \E q \in IDS : GetJobStatus(q)]_vars

\* C19: removal by the sweep is final: when the record of a started job is
\* no longer in the registry (only the sweep removes records), no step of
\* that job's pipeline stores a record under its identifier again, even
\* when the sweep ran while the pipeline was still in progress (stated for
\* the jobs that share their identifier with no other job).
C19_RemovalIsFinal ==
    [][\A t \in Threads :
          (/\ Started(t)
           /\ thr'[t] # thr[t]
           /\ SoleUser(thr[t].job_id)
           /\ thr[t].job_id \notin DOMAIN job_status) =>
             thr[t].job_id \notin DOMAIN job_status']_vars
====
